---- MODULE Spec2Model ----
(***************************************************************************)
(* Model of the response-compression middleware of casualjim/middlewares   *)
(* (CompressHandlerLevel and its codec pools), translated from             *)
(* src/unnamed/part_000 lines 56-297, with the push-options helper of      *)
(* src/compress_test.go; of RecoverRendered (part_000 lines 19-54), of the *)
(* error values of src/error.go and of RequireJSONBody (src/validate.go).  *)
(*                                                                         *)
(* Representation choices:                                                 *)
(*  - a header value is a sequence of lexemes ("gzip", ",", " ", ...), so  *)
(*    that strings.Split and strings.TrimSpace are computed, not assumed;  *)
(*  - an http.Header is a function from header names to the sequence of    *)
(*    values of that name (absent = empty sequence);                       *)
(*  - the underlying http.ResponseWriter keeps the live header map (hdr),  *)
(*    the snapshot taken when status and headers are committed (sent) and  *)
(*    the sequence of Write calls it received (body);                      *)
(*  - a gzip/flate writer is an object with a sink, and emits one frame    *)
(*    per Write plus a header frame (gzip) and an end frame at Close.      *)
(***************************************************************************)
EXTENDS Integers, Sequences, FiniteSets, TLC

\* ---------------------------------------------------------------- bounds
MaxOps == 4
MaxServed == 2
MaxConcServed == 3
MaxBodyLen == 3

\* ------------------------------------------------------ program constants
BestSpeed == 1
BestCompression == 9
DefaultCompression == -1
StatusOK == 200

deflate == "deflate"
gzipa == "gzip"
none == "none"

\* sinks of a codec: nil (as built by the pool's New), io.Discard, or the
\* serial number (> 0) of the response writer it was Reset to
NilSink == 0
Discard == -1

Reqs == {1, 2}
CodecIds == 1..(IF MaxServed > MaxConcServed THEN MaxServed ELSE MaxConcServed)
RawLevels == {-3, -2, -1, 0, 1, 5, 9, 10}
Chunks == {"a", "b"}
Codes == {StatusOK}

SSE == "text/event-stream"
SSEParam == "text/event-stream; charset=utf-8"
Plain == "text/plain; charset=utf-8"
Octet == "application/octet-stream"

\* --------------------------------------------------------------- strings
\* strings.Split(s, sep) on a sequence of lexemes: always at least one part
RECURSIVE SplitFrom(_, _, _, _)
SplitFrom(s, sep, i, cur) ==
    IF i > Len(s) THEN <<cur>>
    ELSE IF s[i] = sep THEN <<cur>> \o SplitFrom(s, sep, i + 1, <<>>)
    ELSE SplitFrom(s, sep, i + 1, Append(cur, s[i]))

Split(s, sep) == SplitFrom(s, sep, 1, <<>>)

IsSpace(c) == c \in {" ", "\t"}

RECURSIVE TrimLeft(_)
TrimLeft(s) ==
    IF s # <<>> /\ IsSpace(Head(s)) THEN TrimLeft(Tail(s)) ELSE s

RECURSIVE TrimRight(_)
TrimRight(s) ==
    IF s # <<>> /\ IsSpace(s[Len(s)]) THEN TrimRight(SubSeq(s, 1, Len(s) - 1)) ELSE s

TrimSpaceLeftOnly(s) == TrimLeft(s)

TrimSpace(s) == TrimRight(TrimLeft(s))

\* strings.Contains(ct, "text/event-stream") over the media types of the model
ContainsEventStream(ct) == ct \in {SSE, SSEParam}

\* http.DetectContentType never yields text/event-stream
DetectContentType(b) == IF b = "b" THEN Octet ELSE Plain

\* ----------------------------------------------------------- http.Header
HeaderNames ==
    {"Content-Encoding", "Vary", "Content-Length", "Content-Type", "Transfer-Encoding"}

EmptyHeader == [k \in HeaderNames |-> <<>>]

HGet(h, k) == IF h[k] = <<>> THEN "" ELSE Head(h[k])
HSet(h, k, v) == [h EXCEPT ![k] = <<v>>]
HAdd(h, k, v) == [h EXCEPT ![k] = Append(@, v)]
HDel(h, k) == [h EXCEPT ![k] = <<>>]

\* --------------------------------------------------------- level and pools
PoolLen == BestCompression - BestSpeed + 2
PoolIndexes == 0..(PoolLen - 1)

gzipPoolIndexOffByOne(lvl) ==
    IF lvl = DefaultCompression THEN BestCompression - BestSpeed
    ELSE lvl - BestSpeed

gzipPoolIndex(lvl) ==
    IF lvl = DefaultCompression THEN BestCompression - BestSpeed + 1
    ELSE lvl - BestSpeed

flatePoolIndex(lvl) ==
    IF lvl = DefaultCompression THEN BestCompression - BestSpeed + 1
    ELSE lvl - BestSpeed

\* a slot of the pool array before init: a nil *sync.Pool
NilPool == [made |-> FALSE, newLevel |-> 0, free |-> {}]

addGzipLevelPool(pools, lvl) ==
    [pools EXCEPT ![gzipPoolIndex(lvl)] = [made |-> TRUE, newLevel |-> lvl, free |-> {}]]

addFlateLevelPool(pools, lvl) ==
    [pools EXCEPT ![flatePoolIndex(lvl)] = [made |-> TRUE, newLevel |-> lvl, free |-> {}]]

\* the two init functions: levels BestSpeed..BestCompression in order, then
\* the default level
RECURSIVE gzipInitFrom(_, _)
gzipInitFrom(pools, i) ==
    IF i > BestCompression THEN addGzipLevelPool(pools, DefaultCompression)
    ELSE gzipInitFrom(addGzipLevelPool(pools, i), i + 1)

gzipInit == gzipInitFrom([i \in PoolIndexes |-> NilPool], BestSpeed)

RECURSIVE flateInitFrom(_, _)
flateInitFrom(pools, i) ==
    IF i > BestCompression THEN addFlateLevelPool(pools, DefaultCompression)
    ELSE flateInitFrom(addFlateLevelPool(pools, i), i + 1)

flateInit == flateInitFrom([i \in PoolIndexes |-> NilPool], BestSpeed)

\* the level normalisation at the head of CompressHandlerLevel
NormalizeLevel(lvl) ==
    IF lvl < DefaultCompression \/ lvl > BestCompression THEN DefaultCompression
    ELSE lvl

\* ------------------------------------------------------------ negotiation
\* r.Header.Get("Accept-Encoding"): the first value, or the empty string
RequestGet(vals) == IF vals = <<>> THEN <<>> ELSE Head(vals)

\* the loop over the split header: the first token that matches a case ends it
RECURSIVE NegotiateFrom(_, _)
NegotiateFrom(parts, i) ==
    IF i > Len(parts) THEN none
    ELSE IF TrimSpace(parts[i]) = <<gzipa>> THEN gzipa
    ELSE IF TrimSpace(parts[i]) = <<deflate>> THEN deflate
    ELSE NegotiateFrom(parts, i + 1)

NegotiateGzipAnywhere(vals) ==
    IF \E i \in 1..Len(Split(RequestGet(vals), ",")) :
          TrimSpace(Split(RequestGet(vals), ",")[i]) = <<gzipa>>
    THEN gzipa
    ELSE NegotiateFrom(Split(RequestGet(vals), ","), 1)

NegotiateDefaultsToGzip(vals) ==
    IF NegotiateFrom(Split(RequestGet(vals), ","), 1) = none THEN gzipa
    ELSE NegotiateFrom(Split(RequestGet(vals), ","), 1)

Negotiate(vals) == NegotiateFrom(Split(RequestGet(vals), ","), 1)

\* ------------------------------------------------------------ push options
PushHeaderNames == {"Accept-Encoding", "User-Agent"}
EmptyPushHeader == [k \in PushHeaderNames |-> <<>>]
GzipPushHeader == [EmptyPushHeader EXCEPT !["Accept-Encoding"] = <<"gzip">>]

\* *http.PushOptions: a nil pointer, a struct with a nil Header, or a struct
\* with a header map
NilOpts == [isNil |-> TRUE, hdrNil |-> TRUE, h |-> EmptyPushHeader]
NoHeaderOpts == [isNil |-> FALSE, hdrNil |-> TRUE, h |-> EmptyPushHeader]
Opts(h) == [isNil |-> FALSE, hdrNil |-> FALSE, h |-> h]

UserAgentOnly == [EmptyPushHeader EXCEPT !["User-Agent"] = <<"Mozilla">>]

PushInputs ==
    { NilOpts,
      NoHeaderOpts,
      Opts(EmptyPushHeader),
      Opts(UserAgentOnly),
      Opts([UserAgentOnly EXCEPT !["Accept-Encoding"] = <<"deflate">>]),
      Opts([UserAgentOnly EXCEPT !["Accept-Encoding"] = <<"">>]) }

\* the helper of the tests: the options it returns
setAcceptEncodingForPushOptions(opts) ==
    IF opts.isNil THEN Opts(GzipPushHeader)
    ELSE IF opts.hdrNil THEN Opts(GzipPushHeader)
    ELSE IF HGet(opts.h, "Accept-Encoding") = ""
         THEN Opts(HAdd(opts.h, "Accept-Encoding", "gzip"))
    ELSE opts

\* the Push hook of the deflate path: `opts` is the hook's own variable after
\* the call, `caller` what the caller's pointer refers to afterwards (an
\* assignment to the parameter of a nil pointer is not seen by the caller),
\* `delegated` whether the underlying Push was called, `ret` what is returned
PushHook(opts) ==
    IF opts.isNil
    THEN [opts |-> Opts(GzipPushHeader), caller |-> opts, delegated |-> FALSE, ret |-> "nil"]
    ELSE IF opts.hdrNil
    THEN [opts |-> Opts(GzipPushHeader), caller |-> Opts(GzipPushHeader),
          delegated |-> FALSE, ret |-> "nil"]
    ELSE IF HGet(opts.h, "Accept-Encoding") = ""
    THEN [opts |-> Opts(HAdd(opts.h, "Accept-Encoding", "gzip")),
          caller |-> Opts(HAdd(opts.h, "Accept-Encoding", "gzip")),
          delegated |-> FALSE, ret |-> "nil"]
    ELSE [opts |-> opts, caller |-> opts, delegated |-> FALSE, ret |-> "nil"]

\* ------------------------------------------------------------------ state
VARIABLES
    rawLevel,          \* the level CompressHandlerLevel was called with
    level,             \* the level its handler closes over
    gzipWriterPools,   \* index -> [made, newLevel, free]
    flateWriterPools,
    codec,             \* the gzip.Writer / flate.Writer objects
    served,            \* requests started so far
    ops,               \* calls of the wrapped handlers and connection events so far
    req,               \* per request: the writer, the closure's variables, history
    rec,               \* the request of the Recover middleware
    errv,              \* the error value under test and what the functions of error.go return
    val                \* the call of RequireJSONBody: its request and what it did

\* the state of the other middlewares, which CompressHandlerLevel leaves alone
others == <<rec, errv, val>>

vars == <<rawLevel, level, gzipWriterPools, flateWriterPools, codec, served, ops, req,
          rec, errv, val>>

NoPush == [n |-> 0, given |-> NilOpts, opts |-> NilOpts, caller |-> NilOpts,
           ret |-> "none", under |-> 0, last |-> NilOpts, res |-> "none"]

NoFirstWrite == [seen |-> FALSE, ct |-> "", te |-> "", whBefore |-> FALSE]

IdleReq ==
    [pc |-> "idle", id |-> 0, ae |-> <<>>, enc |-> none, index |-> 0, cw |-> 0,
     isStream |-> FALSE,
     hdr |-> EmptyHeader, committed |-> FALSE, sent |-> EmptyHeader, status |-> 0,
     whCalls |-> 0, body |-> <<>>, connOK |-> TRUE,
     wres |-> "none", push |-> NoPush,
     \* history of what the handler itself did
     wrote |-> <<>>, hhdr |-> EmptyHeader, fw |-> NoFirstWrite,
     setStream |-> FALSE,
     nAcq |-> 0, nClose |-> 0, nPut |-> 0,
     nWH |-> 0]

\* an object the pool's New has not built yet
NoCodec == [alg |-> none, level |-> 0, sink |-> NilSink, wroteHeader |-> FALSE,
            closed |-> FALSE, err |-> FALSE, buf |-> <<>>]

\* ---- Recover: the closure of RecoverRendered's handler before a request
Threads == {1, 2}

\* int32(code): every code of the model lies inside the range of int32, where
\* the conversion keeps the value
Int32(n) == n

RecoverHeaderNames == {"Content-Type", "X-Content-Type-Options"}

IdleRecover ==
    [pc |-> "idle", statusWritten |-> Int32(-1), pending |-> [t \in Threads |-> 0],
     hdr |-> [k \in RecoverHeaderNames |-> <<>>],
     committed |-> FALSE, sent |-> [k \in RecoverHeaderNames |-> <<>>], status |-> 0,
     fwd |-> <<>>, body |-> <<>>,
     \* history: the codes asked of the hook in the order of its compare-and-swap,
     \* how many of them and how many Write calls preceded the panic
     asked |-> <<>>, askedAtPanic |-> 0, wroteAtPanic |-> 0, panicked |-> FALSE,
     rvr |-> "nil", n |-> 0]

\* ---- error.go: no error value built yet
NoErrorCall == [pc |-> "none"]

\* ---- validate.go: RequireJSONBody not called yet
NoValidateCall == [pc |-> "none"]

Init ==
    /\ rawLevel \in RawLevels
    /\ level = NormalizeLevel(rawLevel)
    /\ gzipWriterPools = gzipInit
    /\ flateWriterPools = flateInit
    /\ codec = [c \in CodecIds |-> NoCodec]
    /\ served = 0
    /\ ops = 0
    /\ req = [r \in Reqs |-> IdleReq]
    /\ rec = IdleRecover
    /\ errv = NoErrorCall
    /\ val = NoValidateCall

\* ------------------------------------------- the underlying response writer
\* status and headers are committed once, by the first WriteHeader, Write or
\* Flush that reaches the underlying writer
UCommit(q, code) ==
    IF q.committed THEN q
    ELSE [q EXCEPT !.committed = TRUE, !.sent = q.hdr, !.status = code]

UWriteHeader(q, code) == [UCommit(q, code) EXCEPT !.whCalls = @ + 1]

UWrite(q, frame) == [UCommit(q, StatusOK) EXCEPT !.body = Append(@, frame)]

RECURSIVE UWriteAll(_, _)
UWriteAll(q, frames) ==
    IF frames = <<>> THEN q ELSE UWriteAll(UWrite(q, Head(frames)), Tail(frames))

UFlush(q) == UCommit(q, StatusOK)

\* --------------------------------------------------------------- the codec
CodecNew(alg, lvl) ==
    [alg |-> alg, level |-> lvl, sink |-> NilSink, wroteHeader |-> FALSE,
     closed |-> FALSE, err |-> FALSE, buf |-> <<>>]

CodecReset(c, sink) ==
    [c EXCEPT !.sink = sink, !.wroteHeader = FALSE, !.closed = FALSE, !.err = FALSE,
              !.buf = <<>>]

\* what a call writes into the sink, in order: the gzip header if it is still
\* due, what the compressor held back, the new output; a failing sink ends it
\* at the first frame
CodecFrames(c, data) ==
    (IF c.alg = gzipa /\ ~c.wroteHeader THEN << <<"hdr", "">> >> ELSE <<>>)
        \o c.buf \o data

CodecEmit(q, c, data) ==
    LET frames == CodecFrames(c, data)
        tried == IF q.connOK \/ frames = <<>> THEN frames ELSE <<Head(frames)>>
    IN IF c.sink = q.id
       THEN [q |-> UWriteAll(q, tried),
             c |-> [c EXCEPT !.wroteHeader = TRUE, !.err = ~q.connOK, !.buf = <<>>],
             err |-> ~q.connOK]
       ELSE [q |-> q, c |-> [c EXCEPT !.wroteHeader = TRUE, !.buf = <<>>], err |-> FALSE]

CodecWrite(q, c, b) ==
    IF c.err THEN [q |-> q, c |-> c, err |-> TRUE]
    ELSE CodecEmit(q, c, << <<"z", b>> >>)

\* a Write whose output the compressor holds back: nothing reaches the sink
\* but the gzip header, which the first Write of a gzip.Writer sends at once
CodecWriteBuffered(q, c, b) ==
    IF c.err THEN [q |-> q, c |-> c, err |-> TRUE]
    ELSE IF c.alg = gzipa /\ ~c.wroteHeader
    THEN LET e == CodecEmit(q, c, <<>>)
         IN IF e.err THEN e ELSE [e EXCEPT !.c.buf = Append(@, <<"z", b>>)]
    ELSE [q |-> q, c |-> [c EXCEPT !.buf = Append(@, <<"z", b>>)], err |-> FALSE]

CodecClose(q, c) ==
    IF c.err THEN [q |-> q, c |-> c, err |-> TRUE]
    ELSE IF c.closed THEN [q |-> q, c |-> c, err |-> FALSE]
    ELSE LET e == CodecEmit(q, c, << <<"end", "">> >>)
         IN [e EXCEPT !.c.closed = TRUE]

\* --------------------------------------------------------------- sync.Pool
\* Get: an object of the pool, which leaves the pool, or a new one from New
\* (the pool may have dropped what was put into it)
Unbuilt == {c \in CodecIds : codec[c].alg = none}

PoolCandidates(pool) ==
    pool.free \cup (IF Unbuilt = {} THEN {}
                    ELSE {CHOOSE c \in Unbuilt : \A d \in Unbuilt : c <= d})

PoolGetKeeps(pool, c) == pool

PoolGet(pool, c) == [pool EXCEPT !.free = @ \ {c}]

PoolPut(pool, c) == [pool EXCEPT !.free = @ \cup {c}]

\* ------------------------------------------------- the hooks of the wrapper
Wrapped(q) == q.enc # none /\ q.cw # 0

\* WriteHeader hook (gzip path and deflate path are the same code)
HookWriteHeader(q, code) ==
    UWriteHeader([q EXCEPT !.hdr = HDel(@, "Content-Length")], code)

IsStreamingByHeadersOnly(q, h) ==
    \/ ContainsEventStream(HGet(h, "Content-Type"))
    \/ HGet(h, "Transfer-Encoding") = "chunked"

IsStreaming(q, h) ==
    \/ q.isStream
    \/ ContainsEventStream(HGet(h, "Content-Type"))
    \/ HGet(h, "Transfer-Encoding") = "chunked"

\* the streaming branch of the Write hook
StreamWriteKeepsCodec(q, c, h, b) ==
    [q |-> UWrite([q EXCEPT !.isStream = TRUE,
                            !.hdr = HDel(HDel(h, "Content-Encoding"), "Vary")],
                  <<"raw", b>>),
     c |-> c,
     err |-> ~q.connOK]

StreamWriteMasksError(q, c, h, b) ==
    [q |-> UWrite([q EXCEPT !.isStream = TRUE,
                            !.hdr = HDel(HDel(h, "Content-Encoding"), "Vary")],
                  <<"raw", b>>),
     c |-> CodecReset(c, Discard),
     err |-> FALSE]

StreamWriteKeepsHeaders(q, c, h, b) ==
    [q |-> UWrite([q EXCEPT !.isStream = TRUE, !.hdr = h], <<"raw", b>>),
     c |-> CodecReset(c, Discard),
     err |-> ~q.connOK]

StreamWrite(q, c, h, b) ==
    [q |-> UWrite([q EXCEPT !.isStream = TRUE,
                            !.hdr = HDel(HDel(h, "Content-Encoding"), "Vary")],
                  <<"raw", b>>),
     c |-> CodecReset(c, Discard),
     err |-> ~q.connOK]

HookWriteNoSniff(q, c, b) ==
    IF IsStreaming(q, q.hdr)
    THEN StreamWrite(q, c, q.hdr, b)
    ELSE CodecWrite([q EXCEPT !.hdr = HDel(q.hdr, "Content-Length")], c, b)

\* Write hook (gzip path and deflate path are the same code)
HookWrite(q, c, b) ==
    LET h == IF HGet(q.hdr, "Content-Type") = ""
             THEN HSet(q.hdr, "Content-Type", DetectContentType(b))
             ELSE q.hdr
    IN IF IsStreaming(q, h)
       THEN StreamWrite(q, c, h, b)
       ELSE CodecWrite([q EXCEPT !.hdr = HDel(h, "Content-Length")], c, b)

\* Write hook when the compressor holds the chunk back
HookWriteBuffered(q, c, b) ==
    LET h == IF HGet(q.hdr, "Content-Type") = ""
             THEN HSet(q.hdr, "Content-Type", DetectContentType(b))
             ELSE q.hdr
    IN IF IsStreaming(q, h)
       THEN StreamWrite(q, c, h, b)
       ELSE CodecWriteBuffered([q EXCEPT !.hdr = HDel(h, "Content-Length")], c, b)

\* ------------------------------------------------------------------ actions
Pools(e) == IF e = gzipa THEN gzipWriterPools ELSE flateWriterPools
PoolIndex(e, lvl) == IF e = gzipa THEN gzipPoolIndex(lvl) ELSE flatePoolIndex(lvl)

\* one request at a time, up to the bound on requests
Sequential(r) == served < MaxServed /\ \A o \in Reqs \ {r} : req[o].pc = "idle"

\* CompressHandlerLevel's handler up to the call of the wrapped handler: the
\* negotiation loop, the pool lookup, Get, Reset and the wrapping
ServeHTTP(r, a) ==
    /\ req[r].pc = "idle"
    /\ \A o \in Reqs : o < r => req[o].pc # "idle"
    /\ served' = served + 1
    /\ UNCHANGED <<others, rawLevel, level, ops>>
    /\ LET q0 == [IdleReq EXCEPT !.pc = "serving", !.id = served + 1, !.ae = a]
           e == Negotiate(a)
           index == PoolIndex(e, level)
           qn == [q0 EXCEPT !.enc = e, !.index = index,
                            !.hdr = HAdd(HSet(@, "Content-Encoding", e),
                                         "Vary", "Accept-Encoding")]
       IN IF e = none
          THEN /\ req' = [req EXCEPT ![r] = q0]
               /\ UNCHANGED <<gzipWriterPools, flateWriterPools, codec>>
          ELSE IF index \notin PoolIndexes
          THEN \* index out of range: the request panics before the handler runs
               /\ req' = [req EXCEPT ![r] = [qn EXCEPT !.pc = "crashed"]]
               /\ UNCHANGED <<gzipWriterPools, flateWriterPools, codec>>
          ELSE \E c \in PoolCandidates(Pools(e)[index]) :
               /\ codec' = [codec EXCEPT ![c] =
                     CodecReset(IF c \in Pools(e)[index].free THEN codec[c]
                                ELSE CodecNew(e, Pools(e)[index].newLevel),
                                served + 1)]
               /\ IF e = gzipa
                  THEN /\ gzipWriterPools' =
                            [gzipWriterPools EXCEPT ![index] = PoolGet(@, c)]
                       /\ UNCHANGED flateWriterPools
                  ELSE /\ flateWriterPools' =
                            [flateWriterPools EXCEPT ![index] = PoolGet(@, c)]
                       /\ UNCHANGED gzipWriterPools
               /\ req' = [req EXCEPT ![r] = [qn EXCEPT !.cw = c, !.nAcq = @ + 1]]

Running(r) == req[r].pc = "serving"
CanStep(r) == Running(r) /\ ops < MaxOps

HandlerSets ==
    { <<"Content-Type", SSE>>, <<"Content-Type", Plain>>,
      <<"Transfer-Encoding", "chunked">>, <<"Content-Length", "0">> }

\* the wrapped handler: w.Header().Set(k, v)
H_HeaderSet(r, k, v) ==
    /\ CanStep(r)
    /\ ops' = ops + 1
    /\ req' = [req EXCEPT ![r].hdr = HSet(@, k, v), ![r].hhdr = HSet(@, k, v),
                          ![r].setStream = @ \/ (k = "Content-Type" /\ ContainsEventStream(v))
                                             \/ (k = "Transfer-Encoding" /\ v = "chunked")]
    /\ UNCHANGED <<others, rawLevel, level, gzipWriterPools, flateWriterPools, codec, served>>

\* w.Header().Del(k)
H_HeaderDel(r, k) ==
    /\ CanStep(r)
    /\ ops' = ops + 1
    /\ req[r].hdr[k] # <<>>
    /\ req' = [req EXCEPT ![r].hdr = HDel(@, k), ![r].hhdr = HDel(@, k)]
    /\ UNCHANGED <<others, rawLevel, level, gzipWriterPools, flateWriterPools, codec, served>>

\* w.Header().Add("Vary", v)
H_HeaderAdd(r, v) ==
    /\ CanStep(r)
    /\ ops' = ops + 1
    /\ \A i \in 1..Len(req[r].hhdr["Vary"]) : req[r].hhdr["Vary"][i] # v
    /\ req' = [req EXCEPT ![r].hdr = HAdd(@, "Vary", v), ![r].hhdr = HAdd(@, "Vary", v)]
    /\ UNCHANGED <<others, rawLevel, level, gzipWriterPools, flateWriterPools, codec, served>>

\* w.WriteHeader(code)
H_WriteHeader(r, code) ==
    /\ CanStep(r)
    /\ ops' = ops + 1
    /\ LET q == req[r]
           qh == [q EXCEPT !.nWH = @ + 1]
       IN req' = [req EXCEPT ![r] = IF Wrapped(q) THEN HookWriteHeader(qh, code)
                                    ELSE UWriteHeader(qh, code)]
    /\ UNCHANGED <<others, rawLevel, level, gzipWriterPools, flateWriterPools, codec, served>>

\* w.Write(b)
H_Write(r, b) ==
    /\ CanStep(r)
    /\ ops' = ops + 1
    /\ LET q == [req[r] EXCEPT
                   !.wrote = Append(@, b),
                   !.fw = IF @.seen THEN @
                          ELSE [seen |-> TRUE, ct |-> HGet(req[r].hdr, "Content-Type"),
                                te |-> HGet(req[r].hdr, "Transfer-Encoding"),
                                whBefore |-> req[r].whCalls > 0]]
           res == IF Wrapped(q) THEN HookWrite(q, codec[q.cw], b)
                  ELSE [q |-> UWrite(q, <<"raw", b>>), c |-> NoCodec, err |-> ~q.connOK]
       IN /\ req' = [req EXCEPT ![r] =
                        [res.q EXCEPT !.wres = IF res.err THEN "err" ELSE "ok"]]
          /\ codec' = IF Wrapped(q) THEN [codec EXCEPT ![q.cw] = res.c] ELSE codec
    /\ UNCHANGED <<others, rawLevel, level, gzipWriterPools, flateWriterPools, served>>

\* w.Write(b) on the compressing writer, the compressor holding the chunk back
H_WriteBuffered(r, b) ==
    /\ CanStep(r)
    /\ Wrapped(req[r])
    /\ ops' = ops + 1
    /\ LET q == [req[r] EXCEPT
                   !.wrote = Append(@, b),
                   !.fw = IF @.seen THEN @
                          ELSE [seen |-> TRUE, ct |-> HGet(req[r].hdr, "Content-Type"),
                                te |-> HGet(req[r].hdr, "Transfer-Encoding"),
                                whBefore |-> req[r].whCalls > 0]]
           res == HookWriteBuffered(q, codec[q.cw], b)
       IN /\ req' = [req EXCEPT ![r] =
                        [res.q EXCEPT !.wres = IF res.err THEN "err" ELSE "ok"]]
          /\ codec' = [codec EXCEPT ![q.cw] = res.c]
    /\ UNCHANGED <<others, rawLevel, level, gzipWriterPools, flateWriterPools, served>>

\* w.(http.Flusher).Flush(): not hooked, it reaches the underlying writer
H_Flush(r) ==
    /\ CanStep(r)
    /\ ops' = ops + 1
    /\ req' = [req EXCEPT ![r] = UFlush(req[r])]
    /\ UNCHANGED <<others, rawLevel, level, gzipWriterPools, flateWriterPools, codec, served>>

\* w.(http.Pusher).Push(target, opts): hooked on the deflate path only; `ok`
\* is whether the Push of the underlying writer succeeds, `res` what it returns
\* or would return, `under` how often it was called and `last` with what
H_Push(r, o, ok) ==
    /\ CanStep(r)
    /\ ops' = ops + 1
    /\ LET q == req[r]
           res == PushHook(o)
       IN req' = [req EXCEPT
                    ![r].push =
                        IF q.enc = deflate /\ Wrapped(q)
                        THEN [n |-> @.n + 1, given |-> o, opts |-> res.opts,
                              caller |-> res.caller, ret |-> res.ret, under |-> @.under,
                              last |-> @.last,
                              res |-> IF ok THEN "nil" ELSE "err"]
                        ELSE [n |-> @.n + 1, given |-> o, opts |-> o, caller |-> o,
                              ret |-> IF ok THEN "nil" ELSE "err",
                              under |-> @.under + 1, last |-> o,
                              res |-> IF ok THEN "nil" ELSE "err"]]
    /\ UNCHANGED <<others, rawLevel, level, gzipWriterPools, flateWriterPools, codec, served>>

\* the deferred function: Close, log its error, Put
Cleanup(r, pcAfter) ==
    LET q == req[r]
        res == CodecClose(q, codec[q.cw])
    IN IF ~Wrapped(q)
       THEN /\ req' = [req EXCEPT ![r].pc = pcAfter]
            /\ UNCHANGED <<gzipWriterPools, flateWriterPools, codec>>
       ELSE /\ req' = [req EXCEPT ![r] =
                         [res.q EXCEPT !.pc = pcAfter, !.nClose = @ + 1, !.nPut = @ + 1]]
            /\ codec' = [codec EXCEPT ![q.cw] = res.c]
            /\ IF q.enc = gzipa
               THEN /\ gzipWriterPools' =
                         [gzipWriterPools EXCEPT ![q.index] = PoolPut(@, q.cw)]
                    /\ UNCHANGED flateWriterPools
               ELSE /\ flateWriterPools' =
                         [flateWriterPools EXCEPT ![q.index] = PoolPut(@, q.cw)]
                    /\ UNCHANGED gzipWriterPools

\* the wrapped handler returns
H_Return(r) ==
    /\ Running(r)
    /\ Cleanup(r, "done")
    /\ UNCHANGED <<others, rawLevel, level, served, ops>>

\* the wrapped handler panics: the deferred function runs, the panic goes on
H_Panic(r) ==
    /\ Running(r)
    /\ Cleanup(r, "panicked")
    /\ UNCHANGED <<others, rawLevel, level, served, ops>>

\* the client goes away: writes to the underlying writer fail from now on
Disconnect(r) ==
    /\ CanStep(r)
    /\ ops' = ops + 1
    /\ req[r].connOK
    /\ req' = [req EXCEPT ![r].connOK = FALSE]
    /\ UNCHANGED <<others, rawLevel, level, gzipWriterPools, flateWriterPools, codec, served>>

\* the server is done with the request and its writer
Finish(r) ==
    /\ req[r].pc \in {"done", "panicked", "crashed"}
    /\ req' = [req EXCEPT ![r] = IdleReq]
    /\ UNCHANGED <<others, rawLevel, level, gzipWriterPools, flateWriterPools, codec, served, ops>>

\* ------------------------------------------------------------------ inputs
\* Accept-Encoding as the request carries it: no value at all, or one value
AcceptEncodings ==
    { <<>>,
      << <<>> >>,
      << <<"gzip">> >>,
      << <<"deflate">> >>,
      << <<"gzip", ",", " ", "deflate", " ">> >>,
      << <<"deflate", ",", " ", "gzip">> >>,
      << <<" ", "gzip", " ">> >>,
      << <<"GZIP">> >>,
      << <<"gzip", ";q=1">> >>,
      << <<"br", ",", "deflate">> >> }

\* the inputs of the specification of the handler's behaviours
MainAcceptEncodings ==
    { <<>>,
      << <<"gzip">> >>,
      << <<"deflate">> >> }

MainLevels == {BestCompression}

\* one request at a time, every behaviour of the wrapped handler
Next ==
    \E r \in Reqs :
        \/ \E a \in MainAcceptEncodings :
              Sequential(r) /\ ServeHTTP(r, a)
        \/ \E kv \in HandlerSets : H_HeaderSet(r, kv[1], kv[2])
        \/ \E k \in {"Content-Type", "Transfer-Encoding"} : H_HeaderDel(r, k)
        \/ H_HeaderAdd(r, "Origin")
        \/ \E code \in Codes : H_WriteHeader(r, code)
        \/ \E b \in Chunks : H_Write(r, b)
        \/ H_Flush(r)
        \/ H_Return(r)
        \/ H_Panic(r)
        \/ Disconnect(r)
        \/ Finish(r)

InitMain == Init /\ rawLevel \in MainLevels

Spec == InitMain /\ [][Next]_vars

\* every level and every Accept-Encoding; the wrapped handler sets a
\* Content-Length, commits, writes and returns
NextWide ==
    \E r \in Reqs :
        \/ \E a \in AcceptEncodings : Sequential(r) /\ ServeHTTP(r, a)
        \/ H_HeaderSet(r, "Content-Length", "0")
        \/ \E code \in Codes : H_WriteHeader(r, code)
        \/ \E b \in Chunks : H_Write(r, b)
        \/ H_Return(r)
        \/ Finish(r)

SpecWide == Init /\ [][NextWide]_vars

\* every push-options value; the wrapped handler pushes and returns
NextPush ==
    \E r \in Reqs :
        \/ \E a \in MainAcceptEncodings : Sequential(r) /\ ServeHTTP(r, a)
        \/ \E o \in PushInputs, ok \in BOOLEAN : H_Push(r, o, ok)
        \/ H_Return(r)
        \/ Finish(r)

SpecPush == InitMain /\ [][NextPush]_vars

\* requests served concurrently
ConcAcceptEncodings == { << <<"gzip">> >>, << <<"deflate">> >> }

NextConc ==
    \E r \in Reqs :
        \/ \E a \in ConcAcceptEncodings : served < MaxConcServed /\ ServeHTTP(r, a)
        \/ H_Write(r, "a")
        \/ H_Return(r)
        \/ H_Panic(r)
        \/ Finish(r)

SpecConc == InitMain /\ [][NextConc]_vars

\* a handler that sets and removes the streaming headers between its writes
NextSticky ==
    \E r \in Reqs :
        \/ \E a \in ConcAcceptEncodings : Sequential(r) /\ ServeHTTP(r, a)
        \/ H_HeaderSet(r, "Content-Type", SSE)
        \/ H_HeaderSet(r, "Transfer-Encoding", "chunked")
        \/ \E k \in {"Content-Type", "Transfer-Encoding"} : H_HeaderDel(r, k)
        \/ \E b \in Chunks : H_Write(r, b)
        \/ H_Return(r)
        \/ Finish(r)

SpecSticky == InitMain /\ [][NextSticky]_vars

\* write errors: the client goes away between the writes of a handler whose
\* chunks the compressor passes on at once or holds back
NextBuffered ==
    \E r \in Reqs :
        \/ \E a \in ConcAcceptEncodings : Sequential(r) /\ ServeHTTP(r, a)
        \/ H_HeaderSet(r, "Content-Type", SSE)
        \/ \E b \in Chunks : H_Write(r, b)
        \/ \E b \in Chunks : H_WriteBuffered(r, b)
        \/ Disconnect(r)
        \/ H_Return(r)
        \/ H_Panic(r)
        \/ Finish(r)

SpecBuffered == InitMain /\ [][NextBuffered]_vars

\* a handler that sets or removes its Content-Type, commits and writes
NextSniff ==
    \E r \in Reqs :
        \/ \E a \in ConcAcceptEncodings : Sequential(r) /\ ServeHTTP(r, a)
        \/ \E v \in {SSE, Plain} : H_HeaderSet(r, "Content-Type", v)
        \/ H_HeaderDel(r, "Content-Type")
        \/ \E code \in Codes : H_WriteHeader(r, code)
        \/ \E b \in Chunks : H_Write(r, b)
        \/ H_Return(r)
        \/ Finish(r)

SpecSniff == InitMain /\ [][NextSniff]_vars

\* ---------------------------------------------------------------- Recover
InternalServerError == 500

RecoverCodes == {StatusOK, 404}

PanicValues == {"error", "string", "nil"}

compressVars ==
    <<rawLevel, level, gzipWriterPools, flateWriterPools, codec, served, ops, req>>

\* atomic.CompareAndSwapInt32(&statusWritten, old, new)
CompareAndSwapAlways(cur, old, new) == [ok |-> TRUE, val |-> new]

CompareAndSwapInt32(cur, old, new) ==
    IF cur = old THEN [ok |-> TRUE, val |-> new] ELSE [ok |-> FALSE, val |-> cur]

\* the WriteHeader hook up to its call of headerFunc: goroutine t has the code
\* pending when the swap succeeded
RecoverHookSwap(q, t, code) ==
    LET cas == CompareAndSwapInt32(q.statusWritten, Int32(-1), Int32(code))
    IN [q EXCEPT !.statusWritten = cas.val,
                 !.pending[t] = IF cas.ok THEN code ELSE 0,
                 !.asked = Append(@, code)]

\* headerFunc(code): WriteHeader of the underlying writer
RecoverForward(q, code) ==
    [q EXCEPT !.fwd = Append(@, code),
              !.committed = TRUE,
              !.sent = IF q.committed THEN @ ELSE q.hdr,
              !.status = IF q.committed THEN @ ELSE code]

\* Write is not hooked: it reaches the underlying writer, which commits 200 first
RecoverWrite(q, b) ==
    [q EXCEPT !.body = Append(@, b),
              !.committed = TRUE,
              !.sent = IF q.committed THEN @ ELSE q.hdr,
              !.status = IF q.committed THEN @ ELSE StatusOK]

\* recover() in the deferred function: the value of the panic; panic(nil) is
\* a *runtime.PanicNilError, an error
RecoverValue(v) == IF v = "nil" THEN "error" ELSE v

\* the message the deferred function hands to the renderer
PanicMessage(rvr) == IF rvr = "error" THEN "stack" ELSE "Internal Server Error"

\* JSONError: the status it asks for
JSONErrorCode(code) == IF code > 0 THEN code ELSE InternalServerError

\* JSONError up to its call of w.WriteHeader
JSONErrorHeaders(h) ==
    [h EXCEPT !["Content-Type"] = <<"application/json; charset=utf-8">>,
              !["X-Content-Type-Options"] = <<"nosniff">>]

R_Serve ==
    /\ rec.pc = "idle"
    /\ rec' = [rec EXCEPT !.pc = "serving"]
    /\ UNCHANGED <<compressVars, errv, val>>

RecoverCanStep(t) == rec.pc = "serving" /\ rec.pending[t] = 0 /\ rec.n < MaxOps

\* a goroutine of the wrapped handler calls w.WriteHeader(code)
R_WriteHeader(t, code) ==
    /\ RecoverCanStep(t)
    /\ rec' = [RecoverHookSwap(rec, t, code) EXCEPT !.n = @ + 1]
    /\ UNCHANGED <<compressVars, errv, val>>

\* the hook of goroutine t goes on to headerFunc(code)
R_Forward(t) ==
    /\ rec.pending[t] # 0
    /\ rec' = [RecoverForward(rec, rec.pending[t]) EXCEPT !.pending[t] = 0]
    /\ UNCHANGED <<compressVars, errv, val>>

\* a goroutine of the wrapped handler calls w.Write(b)
R_Write(t, b) ==
    /\ RecoverCanStep(t)
    /\ rec' = [RecoverWrite(rec, b) EXCEPT !.n = @ + 1]
    /\ UNCHANGED <<compressVars, errv, val>>

\* next.ServeHTTP returns: recover() gives nil, nothing is rendered
R_Return ==
    /\ rec.pc = "serving"
    /\ \A t \in Threads : rec.pending[t] = 0
    /\ rec' = [rec EXCEPT !.pc = "done"]
    /\ UNCHANGED <<compressVars, errv, val>>

\* next.ServeHTTP panics with v in the handler's own goroutine: the deferred
\* function recovers it and calls the renderer, here up to the swap of the
\* renderer's w.WriteHeader
R_Panic(v) ==
    /\ rec.pc = "serving"
    /\ rec.pending[1] = 0
    /\ LET rvr == RecoverValue(v)
           q == [rec EXCEPT !.panicked = TRUE, !.rvr = rvr,
                            !.askedAtPanic = Len(rec.asked),
                            !.wroteAtPanic = Len(rec.body)]
       IN rec' = IF rvr = "nil" THEN [q EXCEPT !.pc = "done"]
                 ELSE [RecoverHookSwap([q EXCEPT !.hdr = JSONErrorHeaders(@)], 1,
                                       JSONErrorCode(InternalServerError))
                       EXCEPT !.pc = "rendering"]
    /\ UNCHANGED <<compressVars, errv, val>>

\* the renderer writes its body and the deferred function ends
R_RenderBody ==
    /\ rec.pc = "rendering"
    /\ rec.pending[1] = 0
    /\ rec' = [RecoverWrite(rec, <<"json", PanicMessage(rec.rvr), InternalServerError>>)
               EXCEPT !.pc = "recovered"]
    /\ UNCHANGED <<compressVars, errv, val>>

NextRecover ==
    \/ R_Serve
    \/ \E t \in Threads, code \in RecoverCodes : R_WriteHeader(t, code)
    \/ \E t \in Threads : R_Forward(t)
    \/ \E t \in Threads, b \in Chunks : R_Write(t, b)
    \/ R_Return
    \/ \E v \in PanicValues : R_Panic(v)
    \/ R_RenderBody

InitRecover == Init /\ rawLevel = DefaultCompression

SpecRecover == InitRecover /\ [][NextRecover]_vars

\* ---------------------------------------------------------------- error.go
StatusBadRequest == 400
StatusUnauthorized == 401
StatusForbidden == 403
StatusNotFound == 404

ErrorCodes == {-1, 0, 399, StatusBadRequest, StatusUnauthorized, StatusForbidden,
               StatusNotFound, 499, InternalServerError, 503}

ErrorBodies == {"", "not here"}

\* an error value: nil, a *httpError, or a value of another type that
\* implements error (which may well carry a status and a body of its own)
NilError == [kind |-> "nil", statusCode |-> 0, body |-> ""]

OtherError(c, b) == [kind |-> "other", statusCode |-> c, body |-> b]

Error(statusCode, body) == [kind |-> "http", statusCode |-> statusCode, body |-> body]

ErrStatusCode(e) ==
    IF e.kind = "nil" THEN 0
    ELSE IF e.kind = "http" THEN e.statusCode
    ELSE 0

ErrBody(e) ==
    IF e.kind = "nil" THEN ""
    ELSE IF e.kind = "http" THEN e.body
    ELSE ""

IsServerErrorAbove(e) ==
    IF e.kind = "nil" THEN FALSE
    ELSE IF e.kind = "http" THEN e.statusCode > InternalServerError
    ELSE FALSE

IsServerError(e) ==
    IF e.kind = "nil" THEN FALSE
    ELSE IF e.kind = "http" THEN e.statusCode >= InternalServerError
    ELSE FALSE

IsError(e, code) ==
    IF e.kind = "nil" THEN FALSE
    ELSE IF e.kind = "http" THEN e.statusCode = code
    ELSE FALSE

IsBadRequest(e) == IsError(e, StatusBadRequest)
IsUnauthorized(e) == IsError(e, StatusUnauthorized)
IsForbidden(e) == IsError(e, StatusForbidden)
IsNotFound(e) == IsError(e, StatusNotFound)

\* a caller gets an error value: from Error(c, b), nil, or from elsewhere
E_Error(c, b) ==
    /\ errv.pc = "none"
    /\ errv' = [pc |-> "built", kind |-> "http", c |-> c, b |-> b, e |-> Error(c, b)]
    /\ UNCHANGED <<compressVars, rec, val>>

E_Nil ==
    /\ errv.pc = "none"
    /\ errv' = [pc |-> "built", kind |-> "nil", c |-> 0, b |-> "", e |-> NilError]
    /\ UNCHANGED <<compressVars, rec, val>>

E_Other(c, b) ==
    /\ errv.pc = "none"
    /\ errv' = [pc |-> "built", kind |-> "other", c |-> c, b |-> b, e |-> OtherError(c, b)]
    /\ UNCHANGED <<compressVars, rec, val>>

\* the caller applies every function of error.go to it, IsError with code k
E_Apply(k) ==
    /\ errv.pc = "built"
    /\ errv' = [pc |-> "applied", kind |-> errv.kind, c |-> errv.c, b |-> errv.b,
                e |-> errv.e, k |-> k,
                status |-> ErrStatusCode(errv.e),
                body |-> ErrBody(errv.e),
                isError |-> IsError(errv.e, k),
                isBadRequest |-> IsBadRequest(errv.e),
                isUnauthorized |-> IsUnauthorized(errv.e),
                isForbidden |-> IsForbidden(errv.e),
                isNotFound |-> IsNotFound(errv.e),
                isServerError |-> IsServerError(errv.e)]
    /\ UNCHANGED <<compressVars, rec, val>>

NextError ==
    \/ \E c \in ErrorCodes, b \in ErrorBodies : E_Error(c, b)
    \/ E_Nil
    \/ \E c \in ErrorCodes, b \in ErrorBodies : E_Other(c, b)
    \/ \E k \in ErrorCodes : E_Apply(k)

InitError == Init /\ rawLevel = DefaultCompression

SpecError == InitError /\ [][NextError]_vars

\* ------------------------------------------------------------- validate.go
StatusUnsupportedMediaType == 415

ContentTypeJSON == "application/json"

\* the Content-Type of the request as lexemes: absent, JSON, JSON with a
\* parameter, JSON after a blank, another type, a type that goes on after
\* the letters of application/json
RequestContentTypes ==
    { <<>>,
      <<ContentTypeJSON>>,
      <<ContentTypeJSON, "; charset=utf-8">>,
      <<" ", ContentTypeJSON>>,
      <<"text/plain">>,
      <<ContentTypeJSON, "-seq">> }

\* the bytes of a request body
BodyBytes == {" ", "{", "}", "[", "]", "x"}

RequestBodies == UNION {[1..n -> BodyBytes] : n \in 0..MaxBodyLen}

\* strings.HasPrefix(ct, prefix), the prefix being one lexeme
HasPrefix(ct, prefix) == ct # <<>> /\ Head(ct) = prefix

\* RequireJSONBody(rw, r): what it returns and the WriteHeader calls it makes
\* on rw; readErr is whether io.ReadAll(r.Body) fails
RequireJSONBody(readErr, ct, body) ==
    IF readErr
    THEN [body |-> <<>>, err |-> "could not read request body",
          written |-> <<StatusBadRequest>>]
    ELSE IF ~HasPrefix(ct, ContentTypeJSON)
    THEN [body |-> <<>>, err |-> "unsupported content type",
          written |-> <<StatusUnsupportedMediaType>>]
    ELSE IF Len(TrimSpace(body)) < 3
    THEN [body |-> <<>>, err |-> "request body is required",
          written |-> <<StatusBadRequest>>]
    ELSE IF TrimSpace(body)[1] # "{" /\ TrimSpace(body)[1] # "["
    THEN [body |-> <<>>, err |-> "request body should contain a JSON Object",
          written |-> <<StatusBadRequest>>]
    ELSE [body |-> TrimSpace(body), err |-> "nil", written |-> <<>>]

\* a handler calls RequireJSONBody on a request
V_RequireJSONBody(readErr, ct, body) ==
    /\ val.pc = "none"
    /\ val' = [pc |-> "returned", readErr |-> readErr, ct |-> ct, given |-> body,
               ret |-> RequireJSONBody(readErr, ct, body)]
    /\ UNCHANGED <<compressVars, rec, errv>>

NextValidate ==
    \E readErr \in BOOLEAN, ct \in RequestContentTypes, body \in RequestBodies :
        V_RequireJSONBody(readErr, ct, body)

InitValidate == Init /\ rawLevel = DefaultCompression

SpecValidate == InitValidate /\ [][NextValidate]_vars

\* ------------------------------------------------------------- properties
Started(q) == q.pc # "idle"
Over(q) == q.pc \in {"done", "panicked"}

RawFrames(chunks) == [i \in 1..Len(chunks) |-> <<"raw", chunks[i]>>]

GzipFrames(chunks) ==
    << <<"hdr", "">> >> \o [i \in 1..Len(chunks) |-> <<"z", chunks[i]>>]
                       \o << <<"end", "">> >>

Values(seq) == {seq[i] : i \in 1..Len(seq)}

\* the header has a token equal to t after trimming
HasToken(vals, t) ==
    \E i \in 1..Len(Split(RequestGet(vals), ",")) :
        TrimSpace(Split(RequestGet(vals), ",")[i]) = <<t>>

\* C1: a request whose Accept-Encoding is absent or empty gets the original
\* writer: no encoding is selected, no codec is acquired, the response headers
\* are exactly what the handler made them (no Content-Encoding, no Vary, its
\* Content-Length kept) and the underlying writer received exactly the chunks
\* the handler wrote, in order.
C1_NoEncodingPassesThrough ==
    \A r \in Reqs :
        (Started(req[r]) /\ RequestGet(req[r].ae) = <<>>) =>
            /\ req[r].enc = none
            /\ req[r].cw = 0
            /\ req[r].nAcq = 0
            /\ req[r].hdr = req[r].hhdr
            /\ HGet(req[r].hdr, "Content-Encoding") = ""
            /\ req[r].hdr["Vary"] = <<>>
            /\ req[r].body = RawFrames(req[r].wrote)

C1_Witness ==
    \E r \in Reqs :
        /\ req[r].pc = "done"
        /\ req[r].ae = << <<>> >>
        /\ HGet(req[r].hdr, "Content-Length") = "0"
        /\ req[r].body = << <<"raw", "a">>, <<"raw", "b">> >>

\* C2: with Accept-Encoding: gzip, a handler that never sets a streaming
\* Content-Type or Transfer-Encoding: chunked, whatever chunks it writes, ends
\* (connection alive) with Content-Encoding: gzip, no Content-Length, and the
\* underlying writer having received the codec's output for its chunks: the
\* gzip header, one frame per chunk, the trailer written at close.
C2_GzipResponse ==
    \A r \in Reqs :
        (/\ Over(req[r])
         /\ RequestGet(req[r].ae) = <<gzipa>>
         /\ ~req[r].setStream
         /\ req[r].connOK) =>
            /\ HGet(req[r].hdr, "Content-Encoding") = gzipa
            /\ HGet(req[r].hdr, "Content-Length") = ""
            /\ req[r].body = GzipFrames(req[r].wrote)

ChunkedHandler(q) ==
    /\ q.enc = gzipa
    /\ HGet(q.hhdr, "Transfer-Encoding") = "chunked"
    /\ q.fw.seen => q.fw.te = "chunked"

ChunksArriveRaw(q) ==
    /\ q.body = RawFrames(q.wrote)
    /\ HGet(q.hdr, "Transfer-Encoding") = "chunked"
    /\ HGet(q.hdr, "Content-Encoding") = ""

C5_GzipPreferredInAnyOrder ==
    \A r \in Reqs :
        Started(req[r]) =>
            /\ (HasToken(req[r].ae, gzipa) /\ HasToken(req[r].ae, deflate))
                   => req[r].enc = gzipa
            /\ req[r].enc = deflate
                   => (HasToken(req[r].ae, deflate) /\ ~HasToken(req[r].ae, gzipa))

ValidLevels == (BestSpeed..BestCompression) \cup {DefaultCompression}

\* C6: whatever level CompressHandlerLevel was given, the level of the pool
\* lookup is the default or one of BestSpeed..BestCompression, so the index of
\* every lookup, gzip or deflate, lies inside the pool array and no request
\* fails on it.
C6_LookupNeverFails ==
    \A r \in Reqs :
        (Started(req[r]) /\ req[r].enc # none) =>
            /\ level \in ValidLevels
            /\ req[r].index \in PoolIndexes
            /\ req[r].pc # "crashed"

\* the index functions alone: gzip and deflate map the valid levels one-to-one
\* onto the indexes of the pool array, level L to L - BestSpeed and the default
\* to the slot after BestCompression's
IndexIsBijection ==
    /\ \A l \in ValidLevels :
        /\ gzipPoolIndex(l) \in PoolIndexes
        /\ flatePoolIndex(l) \in PoolIndexes
    /\ \A l \in BestSpeed..BestCompression :
        /\ gzipPoolIndex(l) = l - BestSpeed
        /\ flatePoolIndex(l) = l - BestSpeed
    /\ gzipPoolIndex(DefaultCompression) = gzipPoolIndex(BestCompression) + 1
    /\ flatePoolIndex(DefaultCompression) = flatePoolIndex(BestCompression) + 1
    /\ \A l1, l2 \in ValidLevels :
        /\ gzipPoolIndex(l1) = gzipPoolIndex(l2) => l1 = l2
        /\ flatePoolIndex(l1) = flatePoolIndex(l2) => l1 = l2
    /\ \A i \in PoolIndexes :
        /\ \E l \in ValidLevels : gzipPoolIndex(l) = i
        /\ \E l \in ValidLevels : flatePoolIndex(l) = i
    /\ Cardinality(PoolIndexes) = Cardinality(ValidLevels)

\* C7: for gzip and for deflate the index function maps the valid levels
\* one-to-one onto the indexes of the pool array, level L to L - BestSpeed and
\* the default to the slot after BestCompression's; every slot holds a pool
\* whose New builds with the level of that slot, so every codec a request
\* holds was built with the level whose index is the slot it came from.
C7_PoolIndexBijection ==
    /\ IndexIsBijection
    /\ \A i \in PoolIndexes :
        /\ gzipWriterPools[i].made
        /\ gzipPoolIndex(gzipWriterPools[i].newLevel) = i
        /\ flateWriterPools[i].made
        /\ flatePoolIndex(flateWriterPools[i].newLevel) = i
    /\ \A r \in Reqs :
        req[r].cw # 0 =>
            /\ codec[req[r].cw].alg = req[r].enc
            /\ PoolIndex(req[r].enc, codec[req[r].cw].level) = req[r].index

C7_Witness ==
    \E r \in Reqs :
        /\ req[r].pc = "serving"
        /\ req[r].enc = gzipa
        /\ req[r].cw # 0
        /\ req[r].index = PoolLen - 1
        /\ codec[req[r].cw].level = DefaultCompression

InFlight(r) == req[r].pc = "serving"

\* codecs that were taken from a pool and not put back
CheckedOut ==
    {c \in CodecIds :
        /\ codec[c].alg # none
        /\ \A i \in PoolIndexes : c \notin gzipWriterPools[i].free
                                 /\ c \notin flateWriterPools[i].free}

\* C8: every request that negotiated an encoding acquires exactly one codec;
\* once its handler has terminated, normally or by a panic, with or without
\* write or close errors, the codec was closed once and put back once into the
\* pool slot it came from (where it stays until a later request takes it from
\* that slot); with no request in flight no codec is checked out.
C8_OneCodecClosedAndReturnedOnce ==
    /\ \A r \in Reqs :
        (Started(req[r]) /\ req[r].enc # none) =>
            /\ req[r].nAcq = 1
            /\ ~InFlight(r) =>
                /\ req[r].nClose = 1
                /\ req[r].nPut = 1
                /\ \/ req[r].cw \in Pools(req[r].enc)[req[r].index].free
                   \/ \E r2 \in Reqs \ {r} :
                        /\ InFlight(r2)
                        /\ req[r2].cw = req[r].cw
                        /\ req[r2].enc = req[r].enc
                        /\ req[r2].index = req[r].index
    /\ (\A r \in Reqs : ~InFlight(r)) => CheckedOut = {}

\* C9: no codec is held by two requests in flight at once, and a codec held by
\* a request in flight is in no pool, so no Get can return it.
C9_ExclusiveOwnership ==
    /\ \A r1, r2 \in Reqs :
        (r1 # r2 /\ InFlight(r1) /\ InFlight(r2) /\ req[r1].cw # 0)
            => req[r1].cw # req[r2].cw
    /\ \A r \in Reqs :
        (InFlight(r) /\ req[r].cw # 0) =>
            /\ \A i \in PoolIndexes : req[r].cw \notin gzipWriterPools[i].free
                                     /\ req[r].cw \notin flateWriterPools[i].free
            /\ codec[req[r].cw].sink \in {req[r].id, Discard}

C9_Witness ==
    /\ InFlight(1) /\ InFlight(2)
    /\ req[1].enc = req[2].enc
    /\ req[1].index = req[2].index
    /\ req[1].cw # 0 /\ req[2].cw # 0
    /\ \E r \in Reqs : req[r].id > req[r].cw
    /\ req[1].wrote # <<>> /\ req[2].wrote # <<>>

\* C10: after the Push hook has handled a push-options value that was nil, had
\* a nil header map or had no or an empty Accept-Encoding, the options have
\* exactly one Accept-Encoding value, gzip, and every other header as given;
\* options with a non-empty Accept-Encoding are as given.
C10_PushOptionsGetGzip ==
    \A r \in Reqs :
        (req[r].enc = deflate /\ req[r].push.n > 0) =>
            LET given == req[r].push.given
                after == req[r].push.opts
            IN IF given.isNil \/ given.hdrNil \/ HGet(given.h, "Accept-Encoding") = ""
               THEN /\ ~after.isNil /\ ~after.hdrNil
                    /\ after.h["Accept-Encoding"] = <<"gzip">>
                    /\ \A k \in PushHeaderNames \ {"Accept-Encoding"} :
                           after.h[k] = given.h[k]
               ELSE after = given

\* C11: a panic of the wrapped handler ends in the deferred function of
\* Recover, which renders it; at most one WriteHeader call per request reaches
\* the underlying writer, whatever the interleaving of the handler's goroutines
\* and the renderer, and it carries the first code asked of the hook; when the
\* handler had asked for no status before it panicked that call carries 500,
\* and 500 is the status of the response if nothing had been written either.
C11_PanicRenderedOneWriteHeader ==
    /\ Len(rec.fwd) <= 1
    /\ rec.fwd # <<>> => rec.fwd[1] = rec.asked[1]
    /\ rec.panicked => rec.pc \in {"rendering", "recovered"}
    /\ (rec.pc = "recovered" /\ rec.askedAtPanic = 0) =>
            /\ rec.fwd = <<InternalServerError>>
            /\ rec.wroteAtPanic = 0 => rec.status = InternalServerError

C11_Witness ==
    /\ rec.pc = "recovered"
    /\ rec.askedAtPanic = 0
    /\ rec.wroteAtPanic = 0
    /\ rec.status = InternalServerError
    /\ Len(rec.asked) = 1

\* the renderer's call after the handler's own WriteHeader, and two goroutines
\* of the handler whose calls overlapped
C11_WitnessSecondCall ==
    /\ rec.pc = "recovered"
    /\ Len(rec.asked) = 3
    /\ rec.asked[1] # rec.asked[2]
    /\ rec.fwd = <<rec.asked[1]>>

\* C12: for e = Error(c, b), ErrStatusCode gives c and ErrBody gives b back,
\* IsError(e, k) is true exactly for k = c, the four named predicates exactly
\* for 400, 401, 403 and 404, IsServerError exactly for c >= 500; for nil and
\* for an error of another type every predicate is false, the status is 0 and
\* the body is empty.
C12_ErrorRoundTrip ==
    errv.pc = "applied" =>
        IF errv.kind = "http"
        THEN /\ errv.status = errv.c
             /\ errv.body = errv.b
             /\ errv.isError <=> (errv.k = errv.c)
             /\ errv.isBadRequest <=> (errv.c = 400)
             /\ errv.isUnauthorized <=> (errv.c = 401)
             /\ errv.isForbidden <=> (errv.c = 403)
             /\ errv.isNotFound <=> (errv.c = 404)
             /\ errv.isServerError <=> (errv.c >= 500)
        ELSE /\ errv.status = 0
             /\ errv.body = ""
             /\ ~errv.isError /\ ~errv.isBadRequest /\ ~errv.isUnauthorized
             /\ ~errv.isForbidden /\ ~errv.isNotFound /\ ~errv.isServerError

C12_Witness ==
    /\ errv.pc = "applied"
    /\ errv.kind = "http"
    /\ errv.c = 500
    /\ errv.b # ""
    /\ errv.k = 500
    /\ errv.isServerError
    /\ errv.isError

\* the token is t with nothing but white space around it
IsPadded(token, t) ==
    \E i \in 1..Len(token) :
        /\ token[i] = t
        /\ \A j \in (1..Len(token)) \ {i} : token[j] \in {" ", "\t"}

Supported(token) == IsPadded(token, gzipa) \/ IsPadded(token, deflate)

\* C13: the selected encoding is that of the first token, from the left, that
\* is gzip or deflate (deflate for a header that lists deflate before gzip),
\* and none when there is no such token; a request acquires at most one codec.
C13_FirstSupportedTokenWins ==
    \A r \in Reqs :
        Started(req[r]) =>
            LET parts == Split(RequestGet(req[r].ae), ",")
            IN /\ \/ /\ req[r].enc = none
                     /\ \A i \in 1..Len(parts) : ~Supported(parts[i])
                  \/ \E i \in 1..Len(parts) :
                        /\ req[r].enc \in {gzipa, deflate}
                        /\ IsPadded(parts[i], req[r].enc)
                        /\ \A j \in 1..(i - 1) : ~Supported(parts[j])
               /\ req[r].nAcq <= 1
               /\ req[r].nAcq = 1 <=> req[r].cw # 0

C13_Witness ==
    \E r \in Reqs :
        /\ req[r].pc = "done"
        /\ req[r].ae = << <<"deflate", ",", " ", "gzip">> >>
        /\ req[r].enc = deflate
        /\ codec[req[r].cw].alg = deflate
        /\ req[r].nAcq = 1
        /\ HGet(req[r].hdr, "Content-Encoding") = deflate

\* C14: a token that is gzip or deflate apart from white space around it is
\* selected; a header none of whose tokens is one (a token in another letter
\* case, a token with a parameter) selects nothing, and then the response has
\* no Content-Encoding and the body is what the handler wrote.
C14_ExactCaseAfterTrim ==
    \A r \in Reqs :
        Started(req[r]) =>
            LET parts == Split(RequestGet(req[r].ae), ",")
            IN /\ (\E i \in 1..Len(parts) : Supported(parts[i])) <=> req[r].enc # none
               /\ (\A i \in 1..Len(parts) : ~Supported(parts[i])) =>
                      /\ HGet(req[r].hdr, "Content-Encoding") = ""
                      /\ req[r].cw = 0
                      /\ req[r].body = RawFrames(req[r].wrote)

C14_Witness ==
    \E r \in Reqs :
        /\ req[r].pc = "done"
        /\ req[r].ae = << <<"GZIP">> >>
        /\ req[r].enc = none
        /\ req[r].body = << <<"raw", "a">> >>
        /\ req[r].id = 2

\* C15: however many times the handler calls WriteHeader on the compressing
\* writer, the underlying writer's WriteHeader is called once, for the first
\* of them; the later calls forward nothing.
C15_WriteHeaderForwardedOnce ==
    \A r \in Reqs :
        (Started(req[r]) /\ Wrapped(req[r])) =>
            req[r].whCalls = (IF req[r].nWH > 0 THEN 1 ELSE 0)

\* the first Write of the request found neither an event stream nor chunked
FirstWriteNotStreaming(q) ==
    /\ q.fw.seen
    /\ ~ContainsEventStream(q.fw.ct)
    /\ q.fw.te # "chunked"

HasFrame(body, kinds) == \E i \in 1..Len(body) : body[i][1] \in kinds

\* C16: the classification made at the first Write stands: when that Write
\* found the response not streaming, every Write of the response goes through
\* the codec, whatever the handler sets afterwards, and no response has chunks
\* from the codec next to chunks written raw.
C16_ClassifiedOnceAtFirstWrite ==
    \A r \in Reqs :
        (Started(req[r]) /\ Wrapped(req[r])) =>
            /\ FirstWriteNotStreaming(req[r]) =>
                  /\ ~req[r].isStream
                  /\ ~HasFrame(req[r].body, {"raw"})
            /\ ~(HasFrame(req[r].body, {"z"}) /\ HasFrame(req[r].body, {"raw"}))

\* C17: isStream is false when the handler starts and only a Write sets it;
\* once it is true it stays true for the rest of the response, whatever the
\* handler does to Content-Type and Transfer-Encoding, the codec's sink is
\* io.Discard, and every chunk written from then on is appended raw to what
\* the original writer received, which receives nothing else.
C17_StreamFlagMonotone ==
    [][\A r \in Reqs :
        /\ (req[r].pc = "idle" /\ req'[r].pc # "idle") => ~req'[r].isStream
        /\ (req[r].pc # "idle" /\ ~req[r].isStream /\ req'[r].isStream) =>
                req'[r].wrote # req[r].wrote
        /\ (req[r].isStream /\ req'[r].pc # "idle") =>
                /\ req'[r].isStream
                /\ codec'[req'[r].cw].sink = Discard
                /\ \/ /\ req'[r].wrote = req[r].wrote
                      /\ req'[r].body = req[r].body
                   \/ \E b \in Chunks :
                        /\ req'[r].wrote = Append(req[r].wrote, b)
                        /\ req'[r].body = Append(req[r].body, <<"raw", b>>)
      ]_vars

\* the handler removed the Content-Type that made the response a stream, and
\* its next Write, which sniffed a Content-Type of its own, still went out raw
C17_Witness ==
    \E r \in Reqs :
        /\ req[r].pc = "done"
        /\ req[r].isStream
        /\ req[r].fw.ct = SSE
        /\ HGet(req[r].hdr, "Content-Type") = Octet
        /\ HGet(req[r].hdr, "Transfer-Encoding") = ""
        /\ req[r].wrote = <<"a", "b">>
        /\ req[r].body = << <<"raw", "a">>, <<"raw", "b">> >>

\* C18: when an encoding was negotiated, the headers committed to the
\* underlying writer carry no Content-Length, whatever made the commit: the
\* handler's WriteHeader, its first Write, or the codec's Close after a
\* handler that called neither.
C18_ContentLengthGoneAtCommit ==
    \A r \in Reqs :
        (Started(req[r]) /\ Wrapped(req[r]) /\ req[r].committed) =>
            HGet(req[r].sent, "Content-Length") = ""

\* codecs that sit in a pool
Pooled ==
    {c \in CodecIds :
        \E i \in PoolIndexes : c \in gzipWriterPools[i].free
                               \/ c \in flateWriterPools[i].free}

\* C19: a codec that sits in a pool has a neutral sink (none, or io.Discard):
\* it does not refer to the writer of the request that used it.
C19_PooledCodecHasNeutralSink ==
    \A c \in Pooled : codec[c].sink \in {NilSink, Discard}

\* C20: a Write of the handler during which the underlying writer reported
\* an error (it was called while the client was gone) returns the error, on the
\* streaming path as on the compressing path; and when the handler is over the
\* codec was closed and put back all the same.
C20_WriteErrorReturned ==
    [][\A r \in Reqs :
        /\ (/\ req[r].pc = "serving"
            /\ req'[r].wrote # req[r].wrote
            /\ Len(req'[r].body) > Len(req[r].body)
            /\ ~req[r].connOK) => req'[r].wres = "err"
        /\ (Over(req'[r]) /\ Wrapped(req'[r])) =>
                /\ req'[r].nClose = 1
                /\ req'[r].nPut = 1
                /\ req'[r].cw \in Pooled'
      ]_vars

\* a Write on the compressing path failed after an earlier chunk had been held
\* back; the handler ended and the codec is back in its pool
C20_Witness ==
    \E r \in Reqs :
        /\ req[r].pc \in {"done", "panicked"}
        /\ req[r].enc = gzipa
        /\ ~req[r].isStream
        /\ ~req[r].connOK
        /\ req[r].wres = "err"
        /\ Len(req[r].wrote) = 2
        /\ req[r].body = << <<"hdr", "">>, <<"z", "a">> >>
        /\ req[r].nPut = 1
        /\ req[r].cw \in Pooled

\* the same on the streaming path
C20_WitnessStreaming ==
    \E r \in Reqs :
        /\ req[r].pc = "done"
        /\ req[r].isStream
        /\ ~req[r].connOK
        /\ req[r].wres = "err"
        /\ req[r].nPut = 1

\* C21: on every Write through the hook a Content-Type the handler had set
\* is left as it was, an absent one becomes the type sniffed from that chunk,
\* so that Content-Type is not empty after the Write, and the streaming check
\* is the one made on the headers with that Content-Type.
C21_ContentTypeSniffedBeforeCheck ==
    [][\A r \in Reqs :
        (/\ req[r].pc = "serving"
         /\ Wrapped(req[r])
         /\ req'[r].wrote # req[r].wrote) =>
            LET b == req'[r].wrote[Len(req'[r].wrote)]
                before == HGet(req[r].hdr, "Content-Type")
                after == HGet(req'[r].hdr, "Content-Type")
            IN /\ before # "" => req'[r].hdr["Content-Type"] = req[r].hdr["Content-Type"]
               /\ before = "" => after = DetectContentType(b)
               /\ after # ""
               /\ req'[r].isStream =
                      (\/ req[r].isStream
                       \/ ContainsEventStream(after)
                       \/ HGet(req[r].hdr, "Transfer-Encoding") = "chunked")
      ]_vars

\* a compressed response whose handler set no Content-Type before its first
\* Write: the type was sniffed from the chunk
C21_Witness ==
    \E r \in Reqs :
        /\ req[r].pc = "serving"
        /\ req[r].enc = gzipa
        /\ req[r].fw.seen
        /\ req[r].fw.ct = ""
        /\ req[r].wrote = <<"b">>
        /\ req[r].hdr["Content-Type"] = <<Octet>>
        /\ ~req[r].isStream
        /\ req[r].body = << <<"hdr", "">>, <<"z", "b">> >>

\* a response whose handler had set its Content-Type keeps it across a Write
C21_WitnessKept ==
    \E r \in Reqs :
        /\ req[r].pc = "serving"
        /\ req[r].fw.seen
        /\ req[r].fw.ct = Plain
        /\ req[r].wrote = <<"b">>
        /\ req[r].hdr["Content-Type"] = <<Plain>>

\* what the underlying writer received as body is the output of the codec
IsCodecOutput(body) == \A i \in 1..Len(body) : body[i][1] # "raw"
IsRawOutput(body) == \A i \in 1..Len(body) : body[i][1] = "raw"

\* C22: the headers committed to the underlying writer carry a
\* Content-Encoding exactly when the body it received is codec output: with a
\* committed Content-Encoding no chunk was written raw, without one none was
\* written by the codec.
C22_CommittedEncodingMatchesBody ==
    \A r \in Reqs :
        (req[r].pc # "idle" /\ req[r].committed) =>
            /\ HGet(req[r].sent, "Content-Encoding") # "" => IsCodecOutput(req[r].body)
            /\ HGet(req[r].sent, "Content-Encoding") = "" => IsRawOutput(req[r].body)

\* the values of a header as a set
HValues(h, k) == {h[k][i] : i \in 1..Len(h[k])}

\* C23: the Vary values the handler added are in the response's Vary header,
\* whether the response is compressed or turned to streaming; only the
\* negotiator's own Accept-Encoding value may have been taken away.
C23_HandlerVaryKept ==
    \A r \in Reqs :
        req[r].pc \in {"serving", "done", "panicked"} =>
            HValues(req[r].hhdr, "Vary") \subseteq HValues(req[r].hdr, "Vary")

\* C24: every Push call of the handler on the deflate path has reached the
\* Push of the underlying writer once, the last one with the options as the
\* hook left them, and what the handler got back is what the underlying Push
\* returned.
C24_PushDelegatedOnce ==
    \A r \in Reqs :
        (req[r].enc = deflate /\ Wrapped(req[r]) /\ req[r].push.n > 0) =>
            /\ req[r].push.under = req[r].push.n
            /\ req[r].push.last = req[r].push.opts
            /\ req[r].push.ret = req[r].push.res

\* C25: RequireJSONBody calls WriteHeader exactly when it returns an error,
\* and then once; for a readable request whose Content-Type starts with
\* application/json and whose trimmed body starts with { or [ it returns the
\* trimmed body, no error, and writes nothing; otherwise it returns an error,
\* having written 415 for the Content-Type of a readable request and 400 for
\* an unreadable body and for an empty or otherwise shaped one.
C25_RequireJSONBodyAcceptsObjectsAndArrays ==
    val.pc = "returned" =>
        LET trimmed == TrimSpace(val.given)
            jsonType == HasPrefix(val.ct, ContentTypeJSON)
            shaped == trimmed # <<>> /\ Head(trimmed) \in {"{", "["}
        IN /\ Len(val.ret.written) <= 1
           /\ (val.ret.written # <<>>) <=> (val.ret.err # "nil")
           /\ IF ~val.readErr /\ jsonType /\ shaped
              THEN /\ val.ret.err = "nil"
                   /\ val.ret.body = trimmed
                   /\ val.ret.written = <<>>
              ELSE /\ val.ret.err # "nil"
                   /\ val.ret.written =
                        IF ~val.readErr /\ ~jsonType
                        THEN <<StatusUnsupportedMediaType>>
                        ELSE <<StatusBadRequest>>

====
